---------------------------- MODULE Spec2Model ----------------------------
(***************************************************************************)
(* A model of parseFormData (src/src/index.ts): the entry transformer, the *)
(* regular-expression path tokenizer, the tree inserter with its registry  *)
(* of ordered arrays, and the final compaction of the ordered arrays.      *)
(*                                                                         *)
(* Strings are TLA+ strings; characters are one-character strings taken    *)
(* with SubSeq.  The output tree lives in a heap of container nodes, so    *)
(* that the identity of an array (the key of the Set arraysWithOrder) is   *)
(* its heap index.                                                         *)
(***************************************************************************)
EXTENDS Naturals, Sequences, FiniteSets, TLC

VARIABLES
    removeEmptyString,  \* the option of this call
    transformEntry,     \* the option of this call: the name of the callback
    formData,           \* the entries the for-loop has taken so far, in order
    heap,               \* the containers allocated so far; heap[RootId] is result
    arraysWithOrder,    \* the Set of arrays (heap ids) that were indexed explicitly
    pc,                 \* "loop" | "returned" | "thrown"
    thrown,             \* the error that left the call, or NoError
    returned,           \* the value the call returned, or undefined
    writes,             \* history: per container, the setter calls it received
    locals,             \* path, value and pathParts of the last iteration that ran
    calls               \* history: the entries transformEntry was called with

vars == <<removeEmptyString, transformEntry, formData, heap, arraysWithOrder, pc,
          thrown, returned, writes, locals, calls>>

-----------------------------------------------------------------------------
(* Bounds of the model *)

\* the number of entries of the input
MaxEntries == 3

\* the number of entries of an input made of the entries of the documented
\* examples
MaxDocEntries == 5

-----------------------------------------------------------------------------
(* JsonValue: leaves are values, containers are references into the heap *)

undefined == [t |-> "undefined", s |-> "", n |-> 0]
null == [t |-> "null", s |-> "", n |-> 0]
Str(s) == [t |-> "string", s |-> s, n |-> 0]
Num(n) == [t |-> "number", s |-> "", n |-> n]
NaN == [t |-> "number", s |-> "NaN", n |-> 0]
Bool(b) == [t |-> "boolean", s |-> IF b THEN "true" ELSE "false", n |-> 0]
\* a File: an opaque payload, one representative
File == [t |-> "File", s |-> "", n |-> 0]
Ref(id) == [t |-> "ref", s |-> "", n |-> id]
\* a function object: what the methods every object inherits are
Function == [t |-> "function", s |-> "", n |-> 0]

NoProps == [k \in {} |-> undefined]

\* a JsonObject {} or a JsonArray [] (possibly with empty slots)
EmptyObject == [kind |-> "object", props |-> NoProps, slots |-> NoProps, length |-> 0]
EmptyArray == [kind |-> "array", props |-> NoProps, slots |-> NoProps, length |-> 0]

RootId == 1

\* Object.prototype, the object every {} and (through Array.prototype) every []
\* inherits from; it has a place in the heap because a path can reach it
PrototypeId == 2

ObjectPrototypeMethods ==
    {"constructor", "hasOwnProperty", "isPrototypeOf", "propertyIsEnumerable",
     "toLocaleString", "toString", "valueOf"}

ObjectPrototype ==
    [kind |-> "object", props |-> [k \in ObjectPrototypeMethods |-> Function],
     slots |-> NoProps, length |-> 0]

\* the heap when the call starts: result = {} and Object.prototype
InitialHeap == <<EmptyObject, ObjectPrototype>>

IsRef(v) == v.t = "ref"

isArray(h, v) == IsRef(v) /\ h[v.n].kind = "array"

isJsonObject(h, v) ==
    /\ v.t \in {"ref", "null", "File"}      \* typeof val === 'object'
    /\ ~isArray(h, v)
    /\ v # null
    /\ v.t # "File"

-----------------------------------------------------------------------------
(* Errors *)

NoError == [name |-> "", key |-> ""]
DuplicateKeyError(key) == [name |-> "DuplicateKeyError", key |-> key]
MixedArrayError(key) == [name |-> "MixedArrayError", key |-> key]

-----------------------------------------------------------------------------
(* Strings *)

CharAt(s, i) == SubSeq(s, i, i)
slice(s, from, to) == SubSeq(s, from + 1, to)       \* String.prototype.slice(from, to)
startsWith(s, c) == Len(s) >= 1 /\ CharAt(s, 1) = c

Digit == {"0", "1", "2", "3", "4", "5", "6", "7", "8", "9"}

DigitValue(c) ==
    CASE c = "0" -> 0 [] c = "1" -> 1 [] c = "2" -> 2 [] c = "3" -> 3
      [] c = "4" -> 4 [] c = "5" -> 5 [] c = "6" -> 6 [] c = "7" -> 7
      [] c = "8" -> 8 [] c = "9" -> 9

IsDigits(s) == \A i \in 1..Len(s) : CharAt(s, i) \in Digit

\* the value of a string of decimal digits; the empty string gives 0
RECURSIVE DecimalValue(_)
DecimalValue(s) ==
    IF Len(s) = 0 THEN 0
    ELSE 10 * DecimalValue(SubSeq(s, 1, Len(s) - 1)) + DigitValue(CharAt(s, Len(s)))

\* Number(value) of a raw entry value (a string or a File), as a JsonValue
Number(v) ==
    IF v.t = "string" /\ IsDigits(v.s) THEN Num(DecimalValue(v.s)) ELSE NaN

\* Boolean(x) of a number
Boolean(v) == v # NaN /\ v.n # 0

-----------------------------------------------------------------------------
(* defaultTransform: the sigil of the raw path selects the coercion *)

defaultTransformNamesOnly(entry) ==
    LET path == entry.path
        value == entry.value
    IN  IF startsWith(path, "+")
          THEN [path |-> slice(path, 1, Len(path)), value |-> Number(value)]
        ELSE IF startsWith(path, "&")
          THEN [path |-> slice(path, 1, Len(path)),
                value |-> Bool(value = Str("on") \/ value = Str("true"))]
        ELSE IF startsWith(path, "-")
          THEN [path |-> slice(path, 1, Len(path)), value |-> null]
        ELSE [path |-> path, value |-> value]
defaultTransform(entry) ==
    LET path == entry.path
        value == entry.value
    IN  IF startsWith(path, "+")
          THEN [path |-> slice(path, 1, Len(path)), value |-> Number(value)]
        ELSE IF startsWith(path, "&")
          THEN [path |-> slice(path, 1, Len(path)),
                value |-> Bool(value = Str("on") \/ value = Str("true")
                               \/ Boolean(Number(value)))]
        ELSE IF startsWith(path, "-")
          THEN [path |-> slice(path, 1, Len(path)), value |-> null]
        ELSE [path |-> path, value |-> value]

-----------------------------------------------------------------------------
\* extractPathParts: the matches of the regular expression re in the path;
\* re has two alternatives, digits (maybe none) closed by "]", or a run of
\* characters other than "." and "[", each followed by "[", "." or the end

\* the first position at or after i that holds no digit (\d* is greedy)
RECURSIVE SkipDigits(_, _)
SkipDigits(s, i) ==
    IF i <= Len(s) /\ CharAt(s, i) \in Digit THEN SkipDigits(s, i + 1) ELSE i

\* the first position at or after i that holds "." or "[" ([^.[]+ is greedy)
RECURSIVE SkipPathPart(_, _)
SkipPathPart(s, i) ==
    IF i <= Len(s) /\ CharAt(s, i) \notin {".", "["}
      THEN SkipPathPart(s, i + 1) ELSE i

\* nextType at position i: "[" or "." or the end of the string
NextTypeAt(s, i) == i > Len(s) \/ CharAt(s, i) \in {"[", "."}

NoMatch == [matched |-> FALSE, array |-> FALSE, text |-> "", last |-> 0, nextType |-> ""]

\* one attempt of the expression at position i (1-based): the first
\* alternative, digits and "]", is tried before the second; last is the
\* position of the last character of group 1
MatchAtAnyNext(s, i) ==
    LET d == SkipDigits(s, i)
        k == SkipPathPart(s, i)
    IN  IF d <= Len(s) /\ CharAt(s, d) = "]"
          THEN [matched |-> TRUE, array |-> TRUE, text |-> SubSeq(s, i, d - 1),
                last |-> d,
                nextType |-> IF d + 1 <= Len(s) /\ CharAt(s, d + 1) \in {"[", "."}
                               THEN CharAt(s, d + 1) ELSE ""]
        ELSE IF k > i
          THEN [matched |-> TRUE, array |-> FALSE, text |-> SubSeq(s, i, k - 1),
                last |-> k - 1,
                nextType |-> IF k > Len(s) THEN "" ELSE CharAt(s, k)]
        ELSE NoMatch
MatchAt(s, i) ==
    LET d == SkipDigits(s, i)
        k == SkipPathPart(s, i)
    IN  IF d <= Len(s) /\ CharAt(s, d) = "]" /\ NextTypeAt(s, d + 1)
          THEN [matched |-> TRUE, array |-> TRUE, text |-> SubSeq(s, i, d - 1),
                last |-> d,
                nextType |-> IF d + 1 > Len(s) THEN "" ELSE CharAt(s, d + 1)]
        ELSE IF k > i
          THEN [matched |-> TRUE, array |-> FALSE, text |-> SubSeq(s, i, k - 1),
                last |-> k - 1,
                nextType |-> IF k > Len(s) THEN "" ELSE CharAt(s, k)]
        ELSE NoMatch

PathPart(s, m) ==
    [path |-> m.text,
     type |-> IF m.array THEN "array" ELSE "object",
     default |-> IF m.nextType = "[" THEN "array" ELSE "object",
     pathToPart |-> slice(s, 0, m.last)]

\* the matches from position i on: a match consumes its nextType character
RECURSIVE matchAll(_, _)
matchAll(s, i) ==
    IF i > Len(s) THEN <<>>
    ELSE LET m == MatchAt(s, i)
         IN  IF m.matched
               THEN <<PathPart(s, m)>> \o matchAll(s, m.last + Len(m.nextType) + 1)
               ELSE matchAll(s, i + 1)

extractPathParts(path) == matchAll(path, 1)

-----------------------------------------------------------------------------
(* Containers *)

\* the own property key of an object and the own element order of an array:
\* undefined where nothing is set (an empty slot)
getProp(node, key) == IF key \in DOMAIN node.props THEN node.props[key] ELSE undefined
getSlot(node, order) == IF order \in DOMAIN node.slots THEN node.slots[order] ELSE undefined

\* a property name that is an array index: decimal digits, no leading zero
IsArrayIndex(key) ==
    /\ key # ""
    /\ IsDigits(key)
    /\ Len(key) = 1 \/ CharAt(key, 1) # "0"

\* obj[key]: the own property, or the __proto__ accessor, or the property
\* inherited from Object.prototype
readProperty(h, id, key) ==
    IF key \in DOMAIN h[id].props THEN h[id].props[key]
    ELSE IF key = "__proto__" THEN (IF id = PrototypeId THEN null ELSE Ref(PrototypeId))
    ELSE IF id # PrototypeId THEN getProp(h[PrototypeId], key)
    ELSE undefined

\* the element an array inherits at index order: a property of
\* Object.prototype whose name is that index
inheritedElement(h, order) ==
    LET keys == {k \in DOMAIN h[PrototypeId].props :
                   IsArrayIndex(k) /\ DecimalValue(k) = order}
    IN  IF keys = {} THEN undefined ELSE h[PrototypeId].props[CHOOSE k \in keys : TRUE]

\* arr[order]: the own element, or the inherited one
readElement(h, id, order) ==
    IF order \in DOMAIN h[id].slots THEN h[id].slots[order] ELSE inheritedElement(h, order)

\* obj[key] = val; obj.__proto__ = val goes to the accessor, which is given
\* the prototype the object has already
setProp(node, key, val) ==
    IF key = "__proto__" THEN node
    ELSE [node EXCEPT !.props = [k \in DOMAIN node.props \cup {key} |->
                                   IF k = key THEN val ELSE node.props[k]]]

\* arr[order] = val: the length grows to cover the index
setSlot(node, order, val) ==
    [node EXCEPT !.slots = [i \in DOMAIN node.slots \cup {order} |->
                              IF i = order THEN val ELSE node.slots[i]],
                 !.length = IF order + 1 > node.length THEN order + 1 ELSE node.length]

\* the history of the setter calls a container received: the explicit
\* indices written and the entries (by their number) that pushed, each
\* through an array part, and the number of the entry that allocated it
NoWrites == [explicit |-> {}, pushes |-> <<>>, by |-> 0]

-----------------------------------------------------------------------------
(* handlePathPart: the value at the path part in the current container,    *)
(* and the place the setter writes to                                      *)

\* the position an array part addresses: its index, or the current length
orderOfLast(pathPart, currentArray) ==
    IF pathPart.path # "" THEN DecimalValue(pathPart.path)
    ELSE IF currentArray.length > 0 THEN currentArray.length - 1 ELSE 0
orderOf(pathPart, currentArray) ==
    IF pathPart.path # "" THEN DecimalValue(pathPart.path) ELSE currentArray.length

\* whether the array part mixes the two ways of addressing
isMixedPushOnly(isOrdered, isOrderedArray, currentArray) ==
    ~isOrdered /\ isOrderedArray
isMixed(isOrdered, isOrderedArray, currentArray) ==
    \/ ~isOrdered /\ isOrderedArray
    \/ isOrdered /\ ~isOrderedArray /\ currentArray.length > 0

\* an object part on an array, an array part on an object
objectPartOnArray(pathPart, current) ==
    pathPart.type = "object" /\ current.kind = "array"
arrayPartOnObjectUnchecked(pathPart, current) == FALSE
arrayPartOnObject(pathPart, current) ==
    pathPart.type # "object" /\ current.kind # "array"

\* arraysWithOrder.add(currentArray) for an explicit index
addOrderedNever(registry, isOrdered, currentArray) == registry
addOrdered(registry, isOrdered, currentArray) ==
    IF isOrdered THEN registry \cup {currentArray} ELSE registry

handlePathPart(pathPart, currentPathObject, h, registry) ==
    LET current == h[currentPathObject]
        isOrdered == pathPart.path # ""
        isOrderedArray == currentPathObject \in registry
        order == orderOf(pathPart, current)
    IN  IF pathPart.type = "object"
          THEN IF objectPartOnArray(pathPart, current)
                 THEN [error |-> DuplicateKeyError(pathPart.pathToPart),
                       registry |-> registry, order |-> 0, nextPathValue |-> undefined]
                 ELSE [error |-> NoError, registry |-> registry, order |-> 0,
                       nextPathValue |-> readProperty(h, currentPathObject, pathPart.path)]
        ELSE IF arrayPartOnObject(pathPart, current)
          THEN [error |-> DuplicateKeyError(pathPart.pathToPart),
                registry |-> registry, order |-> 0, nextPathValue |-> undefined]
        ELSE LET added == addOrdered(registry, isOrdered, currentPathObject)
             IN  IF isMixed(isOrdered, isOrderedArray, current)
                   THEN [error |-> MixedArrayError(pathPart.pathToPart),
                         registry |-> added, order |-> 0, nextPathValue |-> undefined]
                   ELSE [error |-> NoError, registry |-> added, order |-> order,
                         nextPathValue |-> readElement(h, currentPathObject, order)]

\* the setter handlePathPart returns, applied to val
setNextPathValue(h, pathPart, currentPathObject, order, val) ==
    [h EXCEPT ![currentPathObject] =
        IF pathPart.type = "object" THEN setProp(@, pathPart.path, val)
                                    ELSE setSlot(@, order, val)]

\* the history of that setter call, made while entry number entryNo is processed
recordWrite(w, pathPart, currentPathObject, order, entryNo) ==
    IF pathPart.type = "object" THEN w
    ELSE IF pathPart.path # ""
      THEN [w EXCEPT ![currentPathObject].explicit = @ \cup {order}]
    ELSE [w EXCEPT ![currentPathObject].pushes = Append(@, entryNo)]

-----------------------------------------------------------------------------
(* parseFormData: the body of the loop over the entries *)

\* path, value and pathParts before the first iteration
NoLocals == [path |-> "", value |-> undefined, pathParts |-> <<>>]

\* the state one call works on
State(h, registry, w, l, c) ==
    [heap |-> h, arraysWithOrder |-> registry, writes |-> w, locals |-> l,
     calls |-> c, error |-> NoError]

\* the error of a last path part whose place holds a value already
duplicateTargetByKey(pathPart) == DuplicateKeyError(pathPart.path)
duplicateTarget(pathPart) == DuplicateKeyError(pathPart.pathToPart)

\* whether an inner path part found a value the walk cannot go through
isLeafValueTruthy(h, nextPathValue) ==
    /\ nextPathValue \notin {undefined, null}
    /\ ~isJsonObject(h, nextPathValue)
    /\ ~isArray(h, nextPathValue)
isLeafValue(h, nextPathValue) ==
    /\ nextPathValue # undefined
    /\ ~isJsonObject(h, nextPathValue)
    /\ ~isArray(h, nextPathValue)

\* whether the place of the last path part holds a value
isDefinedTruthy(nextPathValue) ==
    nextPathValue \notin {undefined, null, Bool(FALSE), Num(0), NaN, Str("")}
isDefined(nextPathValue) == nextPathValue # undefined

\* whether ?? takes its right-hand side
isNullishAlways(v) == TRUE
isNullish(v) == v \in {undefined, null}

\* pathParts.forEach from part idx on, with currentPathObject the container
\* the walk has reached; a throw ends it and keeps what was changed before
RECURSIVE forEachPathPart(_, _, _, _, _, _)
forEachPathPart(st, pathParts, idx, currentPathObject, value, entryNo) ==
    IF idx > Len(pathParts) THEN st
    ELSE
    LET pathPart == pathParts[idx]
        got == handlePathPart(pathPart, currentPathObject, st.heap, st.arraysWithOrder)
        nextPathValue == got.nextPathValue
        st1 == [st EXCEPT !.arraysWithOrder = got.registry]
        written == recordWrite(st.writes, pathPart, currentPathObject, got.order, entryNo)
    IN  IF got.error # NoError THEN [st1 EXCEPT !.error = got.error]
        ELSE IF Len(pathParts) = idx
          THEN IF isDefined(nextPathValue)
                 THEN [st1 EXCEPT !.error = duplicateTarget(pathPart)]
                 ELSE [st1 EXCEPT
                         !.heap = setNextPathValue(st.heap, pathPart, currentPathObject,
                                                   got.order, value),
                         !.writes = written]
        ELSE IF isLeafValue(st.heap, nextPathValue)
          THEN [st1 EXCEPT !.error = DuplicateKeyError(pathPart.pathToPart)]
        ELSE IF isNullish(nextPathValue)                 \* nextPathValue ?? default
          THEN LET id == Len(st.heap) + 1
                   fresh == IF pathPart.default = "array" THEN EmptyArray ELSE EmptyObject
                   h1 == Append(st.heap, fresh)
               IN  forEachPathPart(
                     [st1 EXCEPT
                        !.heap = setNextPathValue(h1, pathPart, currentPathObject,
                                                  got.order, Ref(id)),
                        !.writes = Append(written, [NoWrites EXCEPT !.by = entryNo])],
                     pathParts, idx + 1, id, value, entryNo)
        ELSE forEachPathPart(
               [st1 EXCEPT
                  !.heap = setNextPathValue(st.heap, pathPart, currentPathObject,
                                            got.order, nextPathValue),
                  !.writes = written],
               pathParts, idx + 1, nextPathValue.n, value, entryNo)

\* whether the loop skips the entry
isSkippedAfterTransform(entry, removeEmpty) ==
    removeEmpty /\ defaultTransform(entry).value = Str("")
isSkipped(entry, removeEmpty) == removeEmpty /\ entry.value = Str("")

\* the callbacks a caller passes as transformEntry: the default (no option
\* given), one that returns the entry as it is, and one that hands the paths
\* that start with "+" to the default transform and returns the others as
\* they are
TransformEntries == {"defaultTransform", "identity", "numbersOnly"}

\* transformEntry(entry, defaultTransform)
callTransformEntryDefault(callback, entry) == defaultTransform(entry)
callTransformEntry(callback, entry) ==
    CASE callback = "defaultTransform" -> defaultTransform(entry)
      [] callback = "identity" -> [path |-> entry.path, value |-> entry.value]
      [] callback = "numbersOnly" ->
           IF startsWith(entry.path, "+") THEN defaultTransform(entry)
           ELSE [path |-> entry.path, value |-> entry.value]

\* one iteration of the loop over the entries
loopBody(st, entry, removeEmpty, callback, entryNo) ==
    IF isSkipped(entry, removeEmpty) THEN st
    ELSE LET transformed == callTransformEntry(callback, entry)
             pathParts == extractPathParts(transformed.path)
             st1 == [st EXCEPT
                       !.calls = Append(@, entry),
                       !.locals = [path |-> transformed.path,
                                   value |-> transformed.value,
                                   pathParts |-> pathParts]]
         IN  forEachPathPart(st1, pathParts, 1, RootId, transformed.value, entryNo)

-----------------------------------------------------------------------------
(* The compaction of the ordered arrays *)

\* orderedArray.flat(0): the elements the array has (its own, or inherited at
\* that index), in index order
RECURSIVE flat0(_, _, _)
flat0(h, node, i) ==
    IF i >= node.length THEN <<>>
    ELSE (IF i \in DOMAIN node.slots THEN <<node.slots[i]>>
          ELSE IF inheritedElement(h, i) # undefined THEN <<inheritedElement(h, i)>>
          ELSE <<>>)
         \o flat0(h, node, i + 1)

\* orderedArray.splice(0, orderedArray.length, ...items)
splice(node, items) ==
    [node EXCEPT !.slots = [i \in {j - 1 : j \in 1..Len(items)} |-> items[i + 1]],
                 !.length = Len(items)]

squashKeepsGaps(h, registry) == h
squash(h, registry) ==
    [id \in DOMAIN h |->
       IF id \in registry THEN splice(h[id], flat0(h, h[id], 0)) ELSE h[id]]

-----------------------------------------------------------------------------
(* The tree as a value *)

RECURSIVE toJson(_, _)
toJson(h, v) ==
    IF ~IsRef(v) THEN v
    ELSE LET node == h[v.n]
         IN  IF node.kind = "object"
               THEN [object |-> [k \in DOMAIN node.props |-> toJson(h, node.props[k])]]
               ELSE [array |-> [i \in DOMAIN node.slots |-> toJson(h, node.slots[i])],
                     length |-> node.length]

\* the call as a function of its whole input: the loop until the first
\* throw, then the compaction and the return
RECURSIVE loopFrom(_, _, _, _, _)
loopFrom(st, entries, i, removeEmpty, callback) ==
    IF i > Len(entries) \/ st.error # NoError THEN st
    ELSE loopFrom(loopBody(st, entries[i], removeEmpty, callback, i),
                  entries, i + 1, removeEmpty, callback)

parseFormData(entries, removeEmpty, callback) ==
    LET st == loopFrom(State(InitialHeap, {}, <<NoWrites, NoWrites>>, NoLocals, <<>>),
                       entries, 1, removeEmpty, callback)
    IN  IF st.error # NoError
          THEN [thrown |-> st.error, returned |-> undefined]
          ELSE [thrown |-> NoError,
                returned |-> toJson(squash(st.heap, st.arraysWithOrder), Ref(RootId))]

-----------------------------------------------------------------------------
(* The inputs of the model *)

Entry(path, value) == [path |-> path, value |-> value]

\* raw paths: members, pushes, explicit indices (with a gap), nestings of
\* them, a sigil, and the empty path
Paths ==
    {"a", "a.b", "a[]", "a[0]", "a[21]", "a[].b", "a[0].b", "a[][]", "a[][0]",
     "a[][1]", "a[0].1", "a[0][1]", "-a", ""}

\* raw values: a text, a second text that tells two entries apart where
\* their order shows, the empty text, a File
Entries ==
    {Entry(p, Str("x")) : p \in Paths}
      \cup {Entry(p, Str("y")) : p \in {"a", "a[]", "a[0]", "a[][]", "a[][0]"}}
      \cup {Entry(p, Str("")) : p \in {"a", "-a", "a[0]", "a[21]"}}
      \cup {Entry(p, File) : p \in {"a", "a[0]"}}

-----------------------------------------------------------------------------
(* The call as a state machine: one step per entry, then the return *)

\* the state of a call that has just built result and arraysWithOrder
Started ==
    /\ formData = <<>>
    /\ heap = InitialHeap
    /\ arraysWithOrder = {}
    /\ pc = "loop"
    /\ thrown = NoError
    /\ returned = undefined
    /\ writes = <<NoWrites, NoWrites>>
    /\ locals = NoLocals
    /\ calls = <<>>

\* a call with the default transformEntry
Init ==
    /\ removeEmptyString \in BOOLEAN
    /\ transformEntry = "defaultTransform"
    /\ Started

\* where the call stands after an iteration: a throw leaves the loop and the
\* call, nothing catches it
afterIterationCaught(st) == "loop"
afterIteration(st) == IF st.error # NoError THEN "thrown" ELSE "loop"

\* one iteration of the loop, on the entry the input gives next
Iteration(entry) ==
    LET st == loopBody(State(heap, arraysWithOrder, writes, locals, calls), entry,
                       removeEmptyString, transformEntry, Len(formData) + 1)
    IN  /\ formData' = Append(formData, entry)
        /\ heap' = st.heap
        /\ arraysWithOrder' = st.arraysWithOrder
        /\ writes' = st.writes
        /\ locals' = st.locals
        /\ calls' = st.calls
        /\ thrown' = st.error
        /\ pc' = afterIteration(st)
        /\ UNCHANGED <<removeEmptyString, transformEntry, returned>>

\* the loop takes the next entry of the input
LoopIteration ==
    /\ pc = "loop"
    /\ Len(formData) < MaxEntries
    /\ \E entry \in Entries : Iteration(entry)

\* the input is exhausted: the ordered arrays are squashed, result is returned
Return ==
    /\ pc = "loop"
    /\ heap' = squash(heap, arraysWithOrder)
    /\ returned' = Ref(RootId)
    /\ pc' = "returned"
    /\ UNCHANGED <<removeEmptyString, transformEntry, formData, arraysWithOrder,
                   thrown, writes, locals, calls>>

Next == LoopIteration \/ Return

Spec == Init /\ [][Next]_vars

-----------------------------------------------------------------------------
(* The call on an input of one entry, the entry drawn from a wider set *)

\* raw paths with a sigil in front, two sigils, a sigil further on, a lone
\* sigil, none
SigilPaths ==
    {"+a", "&a", "-a", "a", "++a", "+-a", "-&a", "&+a", "a+", "a-b", "a.&b", "+a[0]",
     "+", "-"}

\* raw values: numerals, the two names of true, other text, the empty text,
\* a File
RawValues ==
    {Str("1"), Str("0"), Str("10"), Str("on"), Str("true"), Str("On"), Str("x"),
     Str(""), File}

\* canonical paths: the shapes of the grammar, names that every object
\* inherits, keys that hold a closing bracket, and paths with text that the
\* grammar has no place for
TokenPaths ==
    {"a.b", "a[]", "a[0]", "a[5]", "a[007]", "a[].b", "a[0].b", "a[][]", "a[][0]",
     "a[2][1]", "a[0].1", "1", "1.2", "a.b.c", "toString", "a.constructor",
     "__proto__.a", "a]", "]", "1]", "a.1]", "a[0]]",
     "a[", "a.", "a[0]b", "a[]b", "a[0].", "a[0][", "a..b", ".a", "[0]", "a[x]",
     "a[[0]"}

RawEntries ==
    {Entry(p, v) : p \in SigilPaths, v \in RawValues}
      \cup {Entry(p, v) : p \in TokenPaths, v \in {Str("x"), File}}

\* the loop takes the only entry of the input
OnlyIteration ==
    /\ pc = "loop"
    /\ formData = <<>>
    /\ \E entry \in RawEntries : Iteration(entry)

SingleNext == OnlyIteration \/ Return

SingleSpec == Init /\ [][SingleNext]_vars

-----------------------------------------------------------------------------
(* The call on inputs made of the entries of the documented examples *)

\* the entries of "Advanced usage" in the README, and of the third example
\* in the comment of DuplicateKeyError
DocEntries ==
    {Entry("a[].b.c", Str("1")), Entry("a[].b.d", Str("2")), Entry("a[]", Str("3")),
     Entry("b[0]", Str("4")), Entry("+b[100]", Str("5")),
     Entry("a", Str("b")), Entry("a[]", Str("c"))}

DocIteration ==
    /\ pc = "loop"
    /\ Len(formData) < MaxDocEntries
    /\ \E entry \in DocEntries : Iteration(entry)

DocNext == DocIteration \/ Return

DocSpec == Init /\ [][DocNext]_vars

-----------------------------------------------------------------------------
(* The call with a transformEntry of the caller *)

CustomInit ==
    /\ removeEmptyString \in BOOLEAN
    /\ transformEntry \in TransformEntries \ {"defaultTransform"}
    /\ Started

\* entries with and without a sigil, on two names, one with the empty text
CustomEntries ==
    {Entry("+a", Str("1")), Entry("a", Str("x")), Entry("a", Str("")),
     Entry("-a", Str("x")), Entry("&b", Str("on")), Entry("+b", Str("x")),
     Entry("b[]", Str("x"))}

CustomIteration ==
    /\ pc = "loop"
    /\ Len(formData) < MaxEntries
    /\ \E entry \in CustomEntries : Iteration(entry)

CustomNext == CustomIteration \/ Return

CustomSpec == CustomInit /\ [][CustomNext]_vars

-----------------------------------------------------------------------------
(* The call with the default options, on entries whose order may matter *)

\* a call with no options given
DefaultInit ==
    /\ removeEmptyString = FALSE
    /\ transformEntry = "defaultTransform"
    /\ Started

\* entries on one name: members, pushes, explicit indices, a second value
\* where two entries meet; and entries whose first key is __proto__, which
\* every object has
OrderEntries ==
    {Entry(p, Str("x")) :
       p \in {"a", "a.b", "a[]", "a[0]", "a[1]", "a[0].b", "a[1].b", "-a",
              "__proto__.a", "__proto__.0"}}
      \cup {Entry(p, Str("y")) : p \in {"a", "a[]", "a[0]", "a[1]"}}

OrderIteration ==
    /\ pc = "loop"
    /\ Len(formData) < MaxEntries
    /\ \E entry \in OrderEntries : Iteration(entry)

OrderNext == OrderIteration \/ Return

OrderSpec == DefaultInit /\ [][OrderNext]_vars

-----------------------------------------------------------------------------
(* The call on entries that leave null, false, 0, NaN and "" in the tree *)

\* entries that store such a leaf at a or at a[0], and entries that come to
\* the same place or go through it
FalsyEntries ==
    {Entry("-a", Str("x")), Entry("&a", Str("0")), Entry("+a", Str("0")),
     Entry("+a", Str("x")), Entry("a", Str("")), Entry("a", Str("x")),
     Entry("a.b", Str("x")), Entry("a[]", Str("x")),
     Entry("-a[0]", Str("x")), Entry("&a[0]", Str("x")), Entry("a[0]", Str("")),
     Entry("a[0]", Str("x")), Entry("a[0][]", Str("x")), Entry("a[0].b", Str("x"))}

FalsyIteration ==
    /\ pc = "loop"
    /\ Len(formData) < MaxEntries
    /\ \E entry \in FalsyEntries : Iteration(entry)

FalsyNext == FalsyIteration \/ Return

FalsySpec == Init /\ [][FalsyNext]_vars

-----------------------------------------------------------------------------
(* The path grammar                                                        *)
(*   path := segment ('.' segment | array-segment)*                        *)
(*   segment := one or more characters other than '.' and '['              *)
(*   array-segment := '[' digit* ']'                                       *)

\* whether s from position i on is ('.' segment | array-segment)*
RECURSIVE ConformsFrom(_, _)
ConformsFrom(s, i) ==
    IF i > Len(s) THEN TRUE
    ELSE IF CharAt(s, i) = "."
      THEN LET k == SkipPathPart(s, i + 1) IN k > i + 1 /\ ConformsFrom(s, k)
    ELSE IF CharAt(s, i) = "["
      THEN LET d == SkipDigits(s, i + 1)
           IN  d <= Len(s) /\ CharAt(s, d) = "]" /\ ConformsFrom(s, d + 1)
    ELSE FALSE

Conforms(s) == LET k == SkipPathPart(s, 1) IN k > 1 /\ ConformsFrom(s, k)

-----------------------------------------------------------------------------
(* Reading an entry against the tree, segment by segment: what the         *)
(* properties below call the container a segment indexes into, the value   *)
(* its position holds, and the conflict it runs into                       *)

\* the canonical path of an entry, its segments and the leaf it carries
CanonicalPath(entry) == defaultTransform(entry).path
Segments(entry) == extractPathParts(CanonicalPath(entry))
Leaf(entry) == defaultTransform(entry).value

\* a container this very entry creates: it is empty
Fresh(kind) == [t |-> "fresh", s |-> kind, n |-> 0]

KindOf(h, c) == IF c.t = "fresh" THEN c.s ELSE IF IsRef(c) THEN h[c.n].kind ELSE "leaf"

\* the value at the position segment seg addresses in container c: a key, an
\* explicit index, or for a push the position equal to the current length
Held(h, c, seg) ==
    IF c.t = "fresh" THEN undefined
    ELSE IF seg.type = "object" THEN getProp(h[c.n], seg.path)
    ELSE IF seg.path = "" THEN getSlot(h[c.n], h[c.n].length)
    ELSE getSlot(h[c.n], DecimalValue(seg.path))

\* the container segment i indexes into, the segments before it resolved
RECURSIVE Container(_, _, _)
Container(h, segs, i) ==
    IF i = 1 THEN Ref(RootId)
    ELSE LET v == Held(h, Container(h, segs, i - 1), segs[i - 1])
         IN  IF v = undefined THEN Fresh(segs[i - 1].default) ELSE v

\* an array that received writes of the one way is addressed the other way
MixedUse(h, w, c, seg) ==
    /\ IsRef(c)
    /\ seg.type = "array"
    /\ \/ seg.path = "" /\ w[c.n].explicit # {}
       \/ seg.path # "" /\ w[c.n].explicit = {} /\ h[c.n].length > 0

\* the conflict of segment i, the segments before it resolved
Conflict(h, w, segs, i) ==
    LET c == Container(h, segs, i)
        v == Held(h, c, segs[i])
    IN  IF KindOf(h, c) # segs[i].type THEN "kind"
        ELSE IF MixedUse(h, w, c, segs[i]) THEN "mixed"
        ELSE IF v = undefined THEN "none"
        ELSE IF i = Len(segs) THEN "duplicate"
        ELSE IF IsRef(v) THEN "none"
        ELSE "leaf"

\* the first segment with a conflict, 0 when there is none
RECURSIVE FirstConflictFrom(_, _, _, _)
FirstConflictFrom(h, w, segs, i) ==
    IF i > Len(segs) THEN 0
    ELSE IF Conflict(h, w, segs, i) # "none" THEN i
    ELSE FirstConflictFrom(h, w, segs, i + 1)

FirstConflict(h, w, segs) == FirstConflictFrom(h, w, segs, 1)

\* this step processes the entry Taken (the loop took it and did not skip it)
Taken == formData'[Len(formData')]
Takes == pc = "loop" /\ Len(formData') = Len(formData) + 1
Processes == Takes /\ ~(removeEmptyString /\ Taken.value = Str(""))

\* in this step the first conflict of the entry is of kind what, at segment i
ConflictIs(what, i) ==
    LET segs == Segments(Taken)
    IN  /\ Processes
        /\ i \in 1..Len(segs)
        /\ FirstConflict(heap, writes, segs) = i
        /\ Conflict(heap, writes, segs, i) = what

\* the call has failed with error, on the entries given
Failed(entries, error) == pc = "thrown" /\ formData = entries /\ thrown = error

-----------------------------------------------------------------------------
(* C2 *)

IsPush(seg) == seg.type = "array" /\ seg.path = ""

\* an array without empty slots
IsDense(node) == DOMAIN node.slots = {i \in 0..node.length : i < node.length}

\* after an entry that succeeded: the array segment i of the entry indexed into
\* (a push of the entry has added the last element of its array)
RECURSIVE ContainerAfter(_, _, _)
ContainerAfter(h, segs, i) ==
    IF i = 1 THEN Ref(RootId)
    ELSE LET c == ContainerAfter(h, segs, i - 1)
             seg == segs[i - 1]
         IN  IF seg.type = "object" THEN getProp(h[c.n], seg.path)
             ELSE IF IsPush(seg) THEN getSlot(h[c.n], h[c.n].length - 1)
             ELSE getSlot(h[c.n], DecimalValue(seg.path))

\* the length array id had in heap h: 0 when h does not hold it yet
LengthIn(h, id) == IF id \in DOMAIN h THEN h[id].length ELSE 0

PushesIn(w, id) == IF id \in DOMAIN w THEN w[id].pushes ELSE <<>>

\* C2, for a step.  A push segment that the walk reaches in an array addresses
\* the position equal to the length of that array, which holds nothing: the
\* entry has no duplicate-target and no leaf conflict there, and when it has
\* no conflict at all it succeeds, the array is one longer, and the new last
\* position holds the leaf of the entry (final segment) or a container that
\* did not exist before (intermediate segment).
PushAppends ==
    Processes =>
      LET segs == Segments(Taken)
          first == FirstConflict(heap, writes, segs)
      IN  \A i \in 1..Len(segs) :
            IsPush(segs[i]) =>
              /\ ~ConflictIs("duplicate", i)
              /\ ~ConflictIs("leaf", i)
              /\ first = 0 =>
                   /\ pc' = "loop"
                   /\ LET c == ContainerAfter(heap', segs, i)
                          before == LengthIn(heap, c.n)
                          element == getSlot(heap'[c.n], before)
                      IN  /\ IsRef(c)
                          /\ heap'[c.n].kind = "array"
                          /\ heap'[c.n].length = before + 1
                          /\ writes'[c.n].pushes
                               = Append(PushesIn(writes, c.n), Len(formData'))
                          /\ IF i = Len(segs)
                               THEN element = Leaf(Taken)
                               ELSE /\ IsRef(element)
                                    /\ element.n > Len(heap)
                                    /\ heap'[element.n].kind = segs[i].default

\* C2, for a state.  An array that k entries pushed into holds exactly k
\* elements, in the order of those entries: the j-th element is the leaf of
\* the j-th of them, or the container that entry allocated.
PushOrder ==
    pc \in {"loop", "returned"} =>
      \A id \in DOMAIN heap :
        LET pushes == writes[id].pushes
        IN  pushes # <<>> =>
              /\ heap[id].kind = "array"
              /\ heap[id].length = Len(pushes)
              /\ IsDense(heap[id])
              /\ \A j \in 1..Len(pushes) :
                   /\ j > 1 => pushes[j - 1] < pushes[j]
                   /\ LET element == heap[id].slots[j - 1]
                      IN  IF IsRef(element)
                            THEN writes[element.n].by = pushes[j]
                            ELSE element = Leaf(formData[pushes[j]])

-----------------------------------------------------------------------------
(* C3 *)

-----------------------------------------------------------------------------
(* C4 *)

\* whether p is a proper prefix of s
IsProperPrefix(p, s) == Len(p) < Len(s) /\ SubSeq(s, 1, Len(p)) = p

-----------------------------------------------------------------------------
(* C5 *)

\* C5: when a segment of object kind indexes into an array, or a segment of
\* array kind indexes into an object, the call throws a DuplicateKeyError
\* whose key is the path-so-far of that indexing segment; in a path that
\* conforms to the grammar it is never the first segment.
C5_KindMismatch ==
    [][Processes =>
         \A i \in 1..Len(Segments(Taken)) :
           ConflictIs("kind", i)
             => /\ pc' = "thrown"
                /\ thrown' = DuplicateKeyError(Segments(Taken)[i].pathToPart)
                /\ Conforms(CanonicalPath(Taken)) => i > 1]_vars

\* a[0].1 then a[0][1]: an array segment on the object at a[0]
C5_Witness ==
    Failed(<<Entry("a[0].1", Str("x")), Entry("a[0][1]", Str("x"))>>,
           DuplicateKeyError("a[0][1]"))

-----------------------------------------------------------------------------
(* C6 *)

\* C6: a push segment on an array that received an explicit-index write, or
\* an explicit-index segment on a non-empty array that received only push
\* writes, makes the call throw a MixedArrayError whose key is the
\* path-so-far of that segment, be it the final or an intermediate segment,
\* and whether or not the position it addresses holds a value.
C6_MixedAddressing ==
    [][Processes =>
         \A i \in 1..Len(Segments(Taken)) :
           ConflictIs("mixed", i)
             => /\ pc' = "thrown"
                /\ thrown' = MixedArrayError(Segments(Taken)[i].pathToPart)]_vars

\* a[] then a[0]: index 0 is occupied, and the error is the mixed one
C6_Witness ==
    Failed(<<Entry("a[]", Str("x")), Entry("a[0]", Str("y"))>>, MixedArrayError("a[0]"))

-----------------------------------------------------------------------------
(* C1 *)

\* the number of members of S below n
Rank(n, S) == Cardinality({m \in S : m < n})

\* C1: when the call returns, every array that received an explicit-index
\* write, at any depth, has one element per distinct index written and no
\* gap, and the element written at index n stands at the position equal to
\* the number of written indices below n: ascending by index, whatever the
\* order of the entries.
C1_Compaction ==
    [][(pc = "loop" /\ pc' = "returned") =>
         \A id \in DOMAIN heap :
           writes[id].explicit # {} =>
             LET written == writes[id].explicit
             IN  /\ heap'[id].kind = "array"
                 /\ heap'[id].length = Cardinality(written)
                 /\ IsDense(heap'[id])
                 /\ \A n \in written :
                      /\ getSlot(heap[id], n) # undefined
                      /\ getSlot(heap'[id], Rank(n, written)) = getSlot(heap[id], n)]_vars

\* a[21] then a[0]: indices {0, 21} give [value at 0, value at 21]
C1_Witness ==
    /\ pc = "returned"
    /\ formData = <<Entry("a[21]", Str("x")), Entry("a[0]", Str("y"))>>
    /\ toJson(heap, returned) =
         [object |-> [k \in {"a"} |->
            [array |-> [i \in {0, 1} |-> IF i = 0 THEN Str("y") ELSE Str("x")],
             length |-> 2]]]

-----------------------------------------------------------------------------
(* C7 *)

\* C7: after every successfully processed entry, no array has received both
\* an explicit-index write and a push; an array is in arraysWithOrder if and
\* only if it has received an explicit-index write; and an array that is not
\* in it is dense, its length the number of pushes it received.
C7_AddressingMode ==
    pc \in {"loop", "returned"} =>
      /\ \A id \in arraysWithOrder : id \in DOMAIN heap /\ heap[id].kind = "array"
      /\ \A id \in DOMAIN heap :
           heap[id].kind = "array" =>
             /\ ~(writes[id].explicit # {} /\ writes[id].pushes # <<>>)
             /\ id \in arraysWithOrder <=> writes[id].explicit # {}
             /\ id \notin arraysWithOrder
                  => IsDense(heap[id]) /\ heap[id].length = Len(writes[id].pushes)

\* a[][0] then a[][]: the two inner arrays are addressed in different ways
C7_Witness ==
    /\ pc = "loop"
    /\ thrown = NoError
    /\ formData = <<Entry("a[][0]", Str("x")), Entry("a[][]", Str("y"))>>
    /\ \E i, j \in DOMAIN heap :
         /\ heap[i].kind = "array" /\ heap[j].kind = "array"
         /\ i \in arraysWithOrder /\ j \notin arraysWithOrder
         /\ writes[i].explicit = {0} /\ Len(writes[j].pushes) = 1

-----------------------------------------------------------------------------
(* C8 *)

\* the number of leaves of the tree
LeavesOf(node) ==
    Cardinality({k \in DOMAIN node.props : ~IsRef(node.props[k])})
      + Cardinality({i \in DOMAIN node.slots : ~IsRef(node.slots[i])})

RECURSIVE LeafCountUpTo(_, _)
LeafCountUpTo(h, n) == IF n = 0 THEN 0 ELSE LeavesOf(h[n]) + LeafCountUpTo(h, n - 1)

LeafCount(h) == LeafCountUpTo(h, Len(h))

\* every container of h is in h2 with its kind and with all its children, each
\* at its key or index and unchanged
Keeps(h, h2) ==
    /\ Len(h2) >= Len(h)
    /\ \A id \in DOMAIN h :
         /\ h2[id].kind = h[id].kind
         /\ \A k \in DOMAIN h[id].props : getProp(h2[id], k) = h[id].props[k]
         /\ \A i \in DOMAIN h[id].slots : getSlot(h2[id], i) = h[id].slots[i]

\* this step processes an entry and does not throw
Succeeds == Processes /\ pc' = "loop"

\* C8 as stated: a successfully processed entry keeps every node of the tree
\* and writes exactly one new leaf.
C8_AsStated ==
    [][Succeeds => Keeps(heap, heap') /\ LeafCount(heap') = LeafCount(heap) + 1]_vars

\* C8, amended: a successfully processed entry keeps every leaf (value and
\* position) and every container (kind and children); it writes exactly one
\* new leaf when its canonical path has at least one segment, and leaves the
\* tree as it is when its canonical path has none.
C8_WriteOnce ==
    [][Succeeds =>
         /\ Keeps(heap, heap')
         /\ Len(Segments(Taken)) > 0 => LeafCount(heap') = LeafCount(heap) + 1
         /\ Len(Segments(Taken)) = 0 => heap' = heap]_vars

\* a[0].b, the empty path, a[0].1: the entry with the empty path adds nothing,
\* the last entry adds its leaf to the object the first entry made
C8_Witness ==
    /\ pc = "loop"
    /\ formData = <<Entry("a[0].b", Str("x")), Entry("", Str("x")), Entry("a[0].1", Str("x"))>>
    /\ LeafCount(heap) = LeafCount(InitialHeap) + 2
    /\ toJson(heap, Ref(RootId)) =
         [object |-> [k \in {"a"} |->
            [array |-> [i \in {0} |->
               [object |-> [m \in {"b", "1"} |-> Str("x")]]],
             length |-> 1]]]

-----------------------------------------------------------------------------
(* C9 *)

IsEmptyString(entry) == entry.value = Str("")

\* the outcome of the call: the error thrown, or the tree returned
Outcome ==
    [thrown |-> thrown,
     returned |-> IF pc = "returned" THEN toJson(heap, returned) ELSE undefined]

\* the number of places of the tree that hold the leaf v
HoldersOf(node, v) ==
    Cardinality({k \in DOMAIN node.props : node.props[k] = v})
      + Cardinality({i \in DOMAIN node.slots : node.slots[i] = v})

RECURSIVE HolderCountUpTo(_, _, _)
HolderCountUpTo(h, v, n) ==
    IF n = 0 THEN 0 ELSE HoldersOf(h[n], v) + HolderCountUpTo(h, v, n - 1)

\* C9: with removeEmptyString the call ends as the call without the option
\* ends on the input without its empty-string entries (same tree, or same
\* error); an entry with the empty string as raw value changes nothing,
\* whatever its sigil.  Without the option the (transformed) empty-string
\* value is stored as a leaf.
C9_RemoveEmptyString ==
    /\ [](pc \in {"returned", "thrown"} /\ removeEmptyString
            => Outcome = parseFormData(
                           SelectSeq(formData, LAMBDA e : ~IsEmptyString(e)), FALSE,
                           transformEntry))
    /\ [][(Takes /\ IsEmptyString(Taken)) =>
            IF removeEmptyString
              THEN pc' = "loop" /\ UNCHANGED <<heap, arraysWithOrder, thrown>>
              ELSE (pc' = "loop" /\ Len(Segments(Taken)) > 0)
                     => HolderCountUpTo(heap', Leaf(Taken), Len(heap'))
                          = HolderCountUpTo(heap, Leaf(Taken), Len(heap)) + 1]_vars

\* -a with "" makes no key, so that a[21] and a[0] can follow; a[0] with "" is
\* dropped too and the array is compacted from the entry that is left
C9_Witness ==
    /\ pc = "returned"
    /\ removeEmptyString
    /\ formData = <<Entry("-a", Str("")), Entry("a[21]", Str("x")), Entry("a[0]", Str(""))>>
    /\ toJson(heap, returned) =
         [object |-> [k \in {"a"} |-> [array |-> [i \in {0} |-> Str("x")], length |-> 1]]]

-----------------------------------------------------------------------------
(* C10 *)

ErrorNames == {"DuplicateKeyError", "MixedArrayError"}

\* C10: the call ends in one of two ways.  Either it has processed the
\* entries in their order, compacted the ordered arrays and returned the
\* root object, or it has thrown one DuplicateKeyError or MixedArrayError,
\* at the first entry with a conflict; then it returns nothing, takes no
\* further entry and compacts nothing.  Until it has ended it can go on,
\* and each step either ends it or uses up one entry of the input.
C10_AtomicOutcome ==
    /\ [](/\ pc \in {"loop", "returned", "thrown"}
          /\ pc = "loop" => thrown = NoError /\ returned = undefined /\ ENABLED Return
          /\ pc = "returned"
               => /\ thrown = NoError
                  /\ returned = Ref(RootId)
                  /\ \A id \in arraysWithOrder : IsDense(heap[id])
                  /\ Outcome = parseFormData(formData, removeEmptyString, transformEntry)
          /\ pc = "thrown"
               => /\ thrown.name \in ErrorNames
                  /\ returned = undefined
                  /\ Outcome = parseFormData(formData, removeEmptyString, transformEntry))
    /\ [][/\ pc = "loop"
          /\ Processes
               => (pc' = "thrown" <=> FirstConflict(heap, writes, Segments(Taken)) # 0)
          /\ pc' = "thrown" => Keeps(heap, heap')
          /\ pc' = "loop" => Len(formData') = Len(formData) + 1]_vars

\* a[21] then a: the call throws at the second entry, and the array keeps
\* its gap
C10_Witness ==
    /\ Failed(<<Entry("a[21]", Str("x")), Entry("a", Str("y"))>>, DuplicateKeyError("a"))
    /\ returned = undefined
    /\ \E id \in arraysWithOrder : heap[id].length = 22 /\ ~IsDense(heap[id])

-----------------------------------------------------------------------------
(* C11 *)

\* the numeric coercion of the raw values, one by one
CoercedNumber(v) ==
    CASE v = Str("1") -> Num(1)
      [] v = Str("0") -> Num(0)
      [] v = Str("10") -> Num(10)
      [] v = Str("") -> Num(0)
      [] OTHER -> NaN

\* the raw values that the boolean sigil makes true
CoercedTrue == {Str("on"), Str("true"), Str("1"), Str("10")}

FirstChar(p) == IF p = "" THEN "" ELSE SubSeq(p, 1, 1)
AfterFirstChar(p) == SubSeq(p, 2, Len(p))

\* C11: the default transform looks at the first character of the raw path
\* only.  "+" is stripped and the value becomes its numeric coercion (NaN
\* when it is not numeric); "&" is stripped and the value becomes true if
\* and only if it is "on" or "true" or its numeric coercion is neither zero
\* nor NaN; "-" is stripped and the value becomes null; with any other first
\* character path and value stay as they are.  One sigil at most is
\* stripped, and a sigil character further on is a character of a key.
C11_DefaultTransform ==
    [][Processes =>
         LET p == Taken.path
             v == Taken.value
             c == FirstChar(p)
         IN  /\ c = "+" => locals'.path = AfterFirstChar(p) /\ locals'.value = CoercedNumber(v)
             /\ c = "&" => /\ locals'.path = AfterFirstChar(p)
                           /\ locals'.value = Bool(v \in CoercedTrue)
             /\ c = "-" => locals'.path = AfterFirstChar(p) /\ locals'.value = null
             /\ c \notin {"+", "&", "-"} => locals'.path = p /\ locals'.value = v
             /\ Len(locals'.path) >= Len(p) - 1
             /\ (locals'.path # "" /\ \A i \in 1..Len(locals'.path) :
                                        CharAt(locals'.path, i) \notin {".", "[", "]"})
                  => /\ Len(locals'.pathParts) = 1
                     /\ locals'.pathParts[1].type = "object"
                     /\ locals'.pathParts[1].path = locals'.path]_vars

\* &+a with 10: the first sigil makes the value true, the second is kept as
\* the first character of the key
C11_Witness ==
    /\ pc = "loop"
    /\ formData = <<Entry("&+a", Str("10"))>>
    /\ locals.path = "+a"
    /\ getProp(heap[RootId], "+a") = Bool(TRUE)

-----------------------------------------------------------------------------
(* C12 *)

\* the segments of a path that conforms to the grammar, read by the grammar:
\* a segment is a run of characters other than "." and "[", an array segment
\* the digits between "[" and "]"
RECURSIVE GrammarSegmentsFrom(_, _)
GrammarSegmentsFrom(s, i) ==
    IF i > Len(s) THEN <<>>
    ELSE IF CharAt(s, i) = "."
      THEN LET k == SkipPathPart(s, i + 1)
           IN  <<[kind |-> "object", key |-> SubSeq(s, i + 1, k - 1), last |-> k - 1]>>
                 \o GrammarSegmentsFrom(s, k)
    ELSE LET d == SkipDigits(s, i + 1)
         IN  <<[kind |-> "array", key |-> SubSeq(s, i + 1, d - 1), last |-> d]>>
               \o GrammarSegmentsFrom(s, d + 1)

GrammarSegments(s) ==
    LET k == SkipPathPart(s, 1)
    IN  <<[kind |-> "object", key |-> SubSeq(s, 1, k - 1), last |-> k - 1]>>
          \o GrammarSegmentsFrom(s, k)

HasSigil(p) == FirstChar(p) \in {"+", "&", "-"}

\* the value reached from value v by the segments from i on: a key as it is
\* written, an explicit index at that position, a push at position 0
RECURSIVE Navigate(_, _, _, _)
Navigate(h, v, segs, i) ==
    IF i > Len(segs) THEN v
    ELSE IF ~IsRef(v) \/ h[v.n].kind # segs[i].kind THEN undefined
    ELSE IF segs[i].kind = "object"
      THEN Navigate(h, getProp(h[v.n], segs[i].key), segs, i + 1)
    ELSE IF segs[i].key = "" THEN Navigate(h, getSlot(h[v.n], 0), segs, i + 1)
    ELSE Navigate(h, getSlot(h[v.n], DecimalValue(segs[i].key)), segs, i + 1)

\* C12: for a single entry whose path has no sigil and conforms to the
\* grammar, whatever its value, the call returns, and the segments of the
\* path lead from the returned root to that value: each key as written, each
\* explicit index [n] at position n, each [] at position 0.
C12_SingleEntry ==
    (/\ pc \in {"returned", "thrown"}
     /\ ~removeEmptyString
     /\ Len(formData) = 1
     /\ ~HasSigil(formData[1].path)
     /\ Conforms(formData[1].path))
      => /\ pc = "returned"
         /\ Navigate(heap, returned, GrammarSegments(formData[1].path), 1)
              = formData[1].value

-----------------------------------------------------------------------------
(* C13 *)

\* the input of "Advanced usage"
AdvancedUsage ==
    <<Entry("a[].b.c", Str("1")), Entry("a[].b.d", Str("2")), Entry("a[]", Str("3")),
      Entry("b[0]", Str("4")), Entry("+b[100]", Str("5"))>>

\* the result the README gives for it
AdvancedUsageResult ==
    [object |-> [k \in {"a", "b"} |->
       IF k = "a"
         THEN [array |-> [i \in {0, 1} |->
                 IF i = 0
                   THEN [object |-> [m \in {"b"} |->
                           [object |-> [n \in {"c", "d"} |->
                              IF n = "c" THEN Str("1") ELSE Str("2")]]]]
                   ELSE Str("3")],
               length |-> 2]
         ELSE [array |-> [i \in {0, 1} |-> IF i = 0 THEN Str("4") ELSE Num(5)],
               length |-> 2]]]

\* C13: the call on a[].b.c=1, a[].b.d=2, a[]=3, b[0]=4, +b[100]=5, in this
\* order, returns {a: [{b: {c: '1', d: '2'}}, '3'], b: ['4', 5]}: the first
\* two entries write into the same element of a, which ends with 2 elements.
C13_AdvancedUsage ==
    (formData = AdvancedUsage /\ pc # "loop")
      => /\ pc = "returned"
         /\ toJson(heap, returned) = AdvancedUsageResult

-----------------------------------------------------------------------------
(* C14 *)

\* C14: the call on a=b followed by a[]=c throws a DuplicateKeyError whose
\* key is a[].
C14_LeafThenPush ==
    formData = <<Entry("a", Str("b")), Entry("a[]", Str("c"))>>
      => pc = "thrown" /\ thrown = DuplicateKeyError("a[]")

-----------------------------------------------------------------------------
(* C15 *)

\* what the callbacks of the model return for an entry, by cases
CallbackResult(callback, entry) ==
    IF callback = "numbersOnly" /\ FirstChar(entry.path) = "+"
      THEN [path |-> AfterFirstChar(entry.path), value |-> CoercedNumber(entry.value)]
      ELSE [path |-> entry.path, value |-> entry.value]

\* C15, for a state: transformEntry has been called once for each entry the
\* loop took and did not skip, in their order, with the raw entry.
CalledOncePerEntry ==
    calls = SelectSeq(formData, LAMBDA e : ~(removeEmptyString /\ IsEmptyString(e)))

\* C15, for a step: the path the callback returns is tokenized as it is (a
\* sigil the callback left in front is a character of the first key) and,
\* when the entry is stored, the value the callback returns is the leaf.
StoredVerbatim ==
    Processes =>
      LET result == CallbackResult(transformEntry, Taken)
      IN  /\ locals'.path = result.path
          /\ locals'.value = result.value
          /\ locals'.pathParts # <<>>
          /\ locals'.pathParts[Len(locals'.pathParts)].pathToPart = result.path
          /\ (HasSigil(result.path) /\ Len(result.path) > 1)
                => /\ locals'.pathParts[1].type = "object"
                   /\ FirstChar(locals'.pathParts[1].path) = FirstChar(result.path)
          /\ pc' = "loop"
                => HolderCountUpTo(heap', result.value, Len(heap'))
                     = HolderCountUpTo(heap, result.value, Len(heap)) + 1

\* C15: a transformEntry of the caller is called exactly once per entry that
\* is not skipped, in input order, with the raw entry; the path it returns
\* is tokenized verbatim and the value it returns is stored verbatim; the
\* sigils are stripped and the values coerced only where the callback hands
\* the entry to the default transform.
C15_CustomTransform == []CalledOncePerEntry /\ [][StoredVerbatim]_vars

\* the callback that returns the entry as it is, on +a=1 and then a=x: the
\* key +a holds the text 1, next to the key a
C15_Witness ==
    /\ pc = "returned"
    /\ transformEntry = "identity"
    /\ formData = <<Entry("+a", Str("1")), Entry("a", Str("x"))>>
    /\ calls = formData
    /\ toJson(heap, returned) =
         [object |-> [k \in {"+a", "a"} |-> IF k = "+a" THEN Str("1") ELSE Str("x")]]

-----------------------------------------------------------------------------
(* C16 *)

\* the container a segment that ends at position last of path s asks for
DefaultAfter(s, last) ==
    IF last < Len(s) /\ CharAt(s, last + 1) = "[" THEN "array" ELSE "object"

\* C16: for a canonical path that conforms to the grammar, extractPathParts
\* returns one part per segment of the grammar, in their order: an array part
\* with the digits as key for a bracket group, an object part with the text as
\* key for any other run; pathToPart is the prefix of the path that ends with
\* the segment, the whole path for the last one; default is an array exactly
\* when the next character is "[", the kind of the segment that follows.
C16_TokenizerAgainstGrammar ==
    (calls # <<>> /\ Conforms(locals.path)) =>
      LET segs == GrammarSegments(locals.path)
          parts == locals.pathParts
      IN  /\ Len(parts) = Len(segs)
          /\ \A i \in 1..Len(segs) :
               /\ parts[i].type = segs[i].kind
               /\ parts[i].path = segs[i].key
               /\ parts[i].pathToPart = SubSeq(locals.path, 1, segs[i].last)
               /\ parts[i].default = DefaultAfter(locals.path, segs[i].last)
               /\ i < Len(segs) => parts[i].default = segs[i + 1].kind
               /\ i = Len(segs) => parts[i].pathToPart = locals.path

-----------------------------------------------------------------------------
(* C17 *)

\* part i of the path parts of s stands between "[" and "]"
InBrackets(s, part) ==
    LET close == Len(part.pathToPart)
        open == close - Len(part.path) - 1
    IN  /\ open >= 1
        /\ CharAt(s, open) = "["
        /\ CharAt(s, close) = "]"

\* C17: for every path, a part is an array part only when its digits (or its
\* empty key) stand between an opening "[" and a closing "]"; a name made of
\* digits that does not stand in brackets is an object part with those
\* digits as key.
C17_ArrayNeedsBrackets ==
    calls # <<>> =>
      \A i \in 1..Len(locals.pathParts) :
        LET part == locals.pathParts[i]
        IN  /\ part.type = "array" => IsDigits(part.path) /\ InBrackets(locals.path, part)
            /\ part.type = "object" => part.path # ""

-----------------------------------------------------------------------------
(* C18 *)

\* the length of the longest prefix of s that conforms to the grammar
ConformingPrefix(s) ==
    LET lengths == {k \in 1..Len(s) : Conforms(SubSeq(s, 1, k))}
    IN  IF lengths = {} THEN 0 ELSE CHOOSE k \in lengths : \A m \in lengths : m <= k

TextAfterPrefix(s) == SubSeq(s, ConformingPrefix(s) + 1, Len(s))

\* a stray "[" or "." at the end of a path that conforms without it
StrayAtEnd(s) == ConformingPrefix(s) > 0 /\ TextAfterPrefix(s) \in {"[", "."}

\* text without "." and "[" after the closing bracket that ends the
\* conforming prefix
TextAfterBracket(s) ==
    LET k == ConformingPrefix(s)
        t == TextAfterPrefix(s)
    IN  /\ k > 0
        /\ CharAt(s, k) = "]"
        /\ t # ""
        /\ \A i \in 1..Len(t) : CharAt(t, i) \notin {".", "["}

\* the only entry of the input has been processed, on its own canonical path
SingleProcessed(s) ==
    /\ pc \in {"returned", "thrown"}
    /\ Len(formData) = 1
    /\ calls # <<>>
    /\ locals.path = s

\* the call returned the tree of the only entry stored under the conforming
\* prefix of its path: the parts are the segments of the prefix, and they lead
\* to the value
StoredAtPrefix ==
    LET prefix == SubSeq(locals.path, 1, ConformingPrefix(locals.path))
        segs == GrammarSegments(prefix)
    IN  /\ pc = "returned"
        /\ Len(locals.pathParts) = Len(segs)
        /\ \A i \in 1..Len(segs) :
             /\ locals.pathParts[i].type = segs[i].kind
             /\ locals.pathParts[i].path = segs[i].key
        /\ Navigate(heap, returned, segs, 1) = locals.value

\* C18 as stated: for the only entry of an input, with a path that has a
\* stray "[" or "." at its end or text after a closing bracket, the text the
\* grammar has no place for is dropped, the entry is stored at the place the
\* segments before it give, and the call raises no error.
C18_AsStated ==
    \A s \in TokenPaths :
      (SingleProcessed(s) /\ (StrayAtEnd(s) \/ TextAfterBracket(s))) => StoredAtPrefix

\* C18, amended: a stray "[" or "." at the end is dropped and the only entry
\* is stored at the place of the segments before it, without error.  Text
\* after a closing bracket is not dropped: the content of the bracket group,
\* the "]" and the text form one object part, which indexes the array the part
\* before it asked for, and the call throws a DuplicateKeyError with the
\* whole path as key.
C18_MalformedPaths ==
    \A s \in TokenPaths :
      SingleProcessed(s) =>
        /\ StrayAtEnd(s) => StoredAtPrefix
        /\ TextAfterBracket(s) =>
             LET parts == locals.pathParts
                 last == parts[Len(parts)]
             IN  /\ pc = "thrown"
                 /\ thrown = DuplicateKeyError(s)
                 /\ last.type = "object"
                 /\ last.pathToPart = s
                 /\ Len(last.path) > Len(TextAfterPrefix(s))
                 /\ SubSeq(s, Len(s) - Len(last.path), Len(s)) = "[" \o last.path

\* a[0]b: the parts are a and 0]b, and the call throws
C18_Witness ==
    /\ SingleProcessed("a[0]b")
    /\ thrown = DuplicateKeyError("a[0]b")
    /\ Len(locals.pathParts) = 2
    /\ locals.pathParts[2].path = "0]b"

-----------------------------------------------------------------------------
(* C19 *)

\* the leaves that are false as a condition
FalsyLeaves == {null, Bool(FALSE), Num(0), NaN, Str("")}

\* C19: a place that holds null, false, 0, NaN or the empty string is
\* occupied.  An entry whose walk comes to such a place, with a segment that
\* fits the container and its way of addressing, makes the call throw a
\* DuplicateKeyError with the path-so-far of that segment as key, be the
\* segment the last of the entry (a write to the same path) or not (a path
\* that goes deeper).
C19_PresenceNotTruthiness ==
    [][Processes =>
         LET segs == Segments(Taken)
             first == FirstConflict(heap, writes, segs)
         IN  \A i \in 1..Len(segs) :
               (/\ first = 0 \/ first >= i
                /\ Conflict(heap, writes, segs, i) \notin {"kind", "mixed"}
                /\ Held(heap, Container(heap, segs, i), segs[i]) \in FalsyLeaves)
                 => /\ pc' = "thrown"
                    /\ thrown' = DuplicateKeyError(segs[i].pathToPart)
                    /\ heap[RootId] = heap'[RootId]]_vars

\* -a[0] then a[0][]: the null at a[0] stops the second entry
C19_Witness ==
    Failed(<<Entry("-a[0]", Str("x")), Entry("a[0][]", Str("x"))>>,
           DuplicateKeyError("a[0]"))

-----------------------------------------------------------------------------
(* C20 *)

\* the number of leaves of the tree under result: every container of the heap
\* but Object.prototype is a node of that tree
TreeLeafCount(h) == LeafCount(h) - LeavesOf(h[PrototypeId])

\* the entries that are not skipped and whose canonical path has a segment
Stored(entries, removeEmpty) ==
    SelectSeq(entries, LAMBDA e : /\ ~(removeEmpty /\ IsEmptyString(e))
                                  /\ Segments(e) # <<>>)

\* C20: when the call returns, the returned tree has as many leaves as
\* the input has entries that are not skipped by removeEmptyString and whose
\* canonical path has at least one segment; an entry whose canonical path
\* has no segment adds nothing and raises no error; the compaction neither
\* drops nor doubles a leaf.
C20_LeafConservation ==
    /\ pc = "returned"
         => /\ TreeLeafCount(heap) = Len(Stored(formData, removeEmptyString))
            /\ \A id \in arraysWithOrder :
                 heap[id].length = Cardinality(writes[id].explicit)
    /\ (formData # <<>> /\ Segments(formData[Len(formData)]) = <<>>) => pc # "thrown"


-----------------------------------------------------------------------------
(* C21 *)

\* the inputs that hold the entries of an input in another order
PermutationsOf(entries) ==
    {[i \in 1..Len(entries) |-> entries[p[i]]] : p \in Permutations(1..Len(entries))}

\* whether the canonical path of the entry has a segment []
HasPush(entry) ==
    \E i \in 1..Len(Segments(entry)) :
      Segments(entry)[i].type = "array" /\ Segments(entry)[i].path = ""

AllConform(entries) ==
    \A i \in 1..Len(entries) : Conforms(CanonicalPath(entries[i]))

\* C21: under the default options, for an input whose paths conform to the
\* grammar, the call on any permutation of the entries returns if and only
\* if the call on the input returns; and when no path has a segment [], a
\* permutation that returns, returns the same tree.
C21_OrderIndependence ==
    (/\ pc \in {"returned", "thrown"}
     /\ ~removeEmptyString
     /\ transformEntry = "defaultTransform"
     /\ AllConform(formData))
      => \A other \in PermutationsOf(formData) :
           LET o == parseFormData(other, FALSE, "defaultTransform")
           IN  /\ o.thrown = NoError <=> pc = "returned"
               /\ (/\ pc = "returned"
                   /\ o.thrown = NoError
                   /\ \A i \in 1..Len(formData) : ~HasPush(formData[i]))
                    => o.returned = toJson(heap, returned)

=============================================================================
